---- MODULE Spec2Model ----
(***************************************************************************)
(* A model of cbednarski/datastore: the typed Collection with its sorted   *)
(* key list (collection.go, lists.go) and the Datastore that owns the      *)
(* collections and snapshots them to one file (datastore.go).              *)
(*                                                                         *)
(* Documents are caller-owned objects handed over by pointer: the model    *)
(* keeps a pool of document objects, each with its kind and its mutable    *)
(* Identifier field, and Items maps a key to the object stored under it.   *)
(***************************************************************************)
EXTENDS Integers, Sequences, FiniteSets, TLC

\* ------------------------------------------------------------------ bounds
\* CurrentIndex is a uint64; the model stops assigning keys at MaxIndex.
MaxIndex == 2

\* The number of calls that each goroutine of a concurrent program makes.
MaxCalls == 2

\* ------------------------------------------------------------- the inputs
\* Document objects of the caller and the reflected type of each.
Docs == {"chocolate", "vanilla", "strawberry", "number"}
NameKind == "*datastore_test.NameDocument"
NumberKind == "*datastore_test.NumberDocument"
CName(d) == IF d = "number" THEN NumberKind ELSE NameKind

\* Collection names passed to In and Init.
CollNames == {"cake"}

\* Paths passed to Create and Open: one in an existing writable directory,
\* one whose directory does not exist.  New leaves the path empty.
PathGood == "data.datastore"
PathNoDir == "doesnotexist/filename"
NoPath == ""
Paths == {PathGood, PathNoDir}

\* Signatures the caller passes to Create and Open.
Sigs == {"v1"}

ErrNil == "nil"
ErrInvalidType == "type does not match collection"
ErrInvalidSignature == "datastore signature does not match"
ErrNotExist == "file does not exist"
ErrIO == "i/o error"
ErrGzip == "gzip: invalid header"
ErrDecode == "gob: name not registered for interface"

VARIABLES
    live,       \* TRUE when the program holds a Datastore
    ds,         \* the Datastore: path, signature, dirty, Collections
    docId,      \* the Identifier field of every document object
    fs,         \* the files: name -> content
    ret,        \* the last call and the error it returned
    hist,       \* history: per collection, the keys Upsert has assigned
    got,        \* the *Datastore that the last call returned, or nil
    pc,         \* per goroutine: the call it is in and its position there
    flock,      \* d.flush: the goroutine that holds it, or NoThread
    mutex,      \* c.mutex of each collection: writer, readers, waiting writers
    loc         \* per goroutine: the local variables of its call

\* The goroutines of a concurrent program and their shared locks.
conc == <<pc, flock, mutex, loc>>

vars == <<live, ds, docId, fs, ret, hist, got, pc, flock, mutex, loc>>

\* --------------------------------------------------------------- lists.go
\* binarySearchList, on a 1-based sequence; positions are 0-based as in Go.
RECURSIVE bsearch(_, _, _, _)
bsearch(list, key, low, high) ==
    IF low > high THEN -1
    ELSE LET mid == low + ((high - low) \div 2)
         IN  IF key < list[mid + 1] THEN bsearch(list, key, low, mid - 1)
             ELSE IF key > list[mid + 1] THEN bsearch(list, key, mid + 1, high)
             ELSE mid

binarySearchList(list, key) == bsearch(list, key, 0, Len(list) - 1)

\* scanList: the position of the first element equal to key, or -1.
scanList(list, key) ==
    IF \E i \in 1..Len(list) : list[i] = key
    THEN (CHOOSE i \in 1..Len(list) :
              list[i] = key /\ \A j \in 1..(i - 1) : list[j] # key) - 1
    ELSE -1

\* (variant) the middle branch keeps the part before idx only
deleteKeyFromListCuts(list, key) ==
    LET idx == binarySearchList(list, key)
    IN  IF idx < 0 THEN list
        ELSE IF idx = 0 THEN SubSeq(list, 2, Len(list))
        ELSE SubSeq(list, 1, idx)

\* deleteKeyFromList: all four branches leave the list without position idx.
deleteKeyFromList(list, key) ==
    LET idx == binarySearchList(list, key)
    IN  IF idx < 0 THEN list
        ELSE IF idx = 0 THEN SubSeq(list, 2, Len(list))
        ELSE IF idx = Len(list) - 1 THEN SubSeq(list, 1, idx)
        ELSE SubSeq(list, 1, idx) \o SubSeq(list, idx + 2, Len(list))

\* sort.Sort(UIntSlice(list)): insertion into an ascending sequence.
RECURSIVE InsertSorted(_, _)
InsertSorted(list, v) ==
    IF list = <<>> THEN <<v>>
    ELSE IF v <= Head(list) THEN <<v>> \o list
    ELSE <<Head(list)>> \o InsertSorted(Tail(list), v)

\* ---------------------------------------------------------- collection.go
\* A Collection made by In: no type, no items, CurrentIndex 0, a nil list.
EmptyCollection ==
    [Type |-> "", Items |-> <<>>, CurrentIndex |-> 0, list |-> <<>>]

\* (variant) a bound type is replaced by the kind of the document
SetTypeRebinds(c, kind) == [c |-> [c EXCEPT !.Type = kind], err |-> "nil"]

\* SetType: the collection after the call and the error returned.
SetType(c, kind) ==
    IF c.Type = "" THEN [c |-> [c EXCEPT !.Type = kind], err |-> ErrNil]
    ELSE IF c.Type = kind THEN [c |-> c, err |-> ErrNil]
    ELSE [c |-> c, err |-> ErrInvalidType]

\* (variant) the counter advanced by two
NextIndexSkips(ci) == ci + 2

\* c.CurrentIndex += 1
NextIndex(ci) == ci + 1

\* (variant) every Upsert appends the key
ListAfterUpsertAlways(list, oldId, key) == Append(list, key)

\* The list after Upsert stored a document whose Identifier was oldId under
\* key: only a key assigned by this call is appended.
ListAfterUpsert(list, oldId, key) ==
    IF oldId = 0 THEN Append(list, key) ELSE list

\* The locked section of Upsert for a document whose Identifier is id:
\* the collection after it and the Identifier the document then has.
UpsertLocked(c, d, id) ==
    LET ci  == IF id = 0 THEN NextIndex(c.CurrentIndex) ELSE c.CurrentIndex
        key == IF id = 0 THEN ci ELSE id
    IN  [c |-> [c EXCEPT !.CurrentIndex = ci,
                         !.list = ListAfterUpsert(c.list, id, key),
                         !.Items = [k \in DOMAIN c.Items \cup {key} |->
                                       IF k = key THEN d ELSE c.Items[k]]],
         id |-> key]

\* (variant) the key leaves the list and the item stays in the map
DeleteKeyKeepsItem(c, key) == [c EXCEPT !.list = deleteKeyFromList(c.list, key)]

\* The locked section of DeleteKey.
DeleteKeyLocked(c, key) ==
    [c EXCEPT !.Items = [k \in DOMAIN c.Items \ {key} |-> c.Items[k]],
              !.list = deleteKeyFromList(c.list, key)]

\* List(): the key list of the collection.
List(c) == c.list

\* generateList: the Identifiers of the stored documents, sorted.
RECURSIVE SortedIDs(_, _)
SortedIDs(items, ids) ==
    IF DOMAIN items = {} THEN <<>>
    ELSE LET k == CHOOSE x \in DOMAIN items : TRUE
         IN  InsertSorted(
                 SortedIDs([j \in DOMAIN items \ {k} |-> items[j]], ids),
                 ids[items[k]])

generateList(c, ids) == [c EXCEPT !.list = SortedIDs(c.Items, ids)]

\* ----------------------------------------------------------- datastore.go
\* (variant) the mutation leaves the dirty flag alone
MarkDirtyForgotten(d) == d

\* c.datastore.dirty = true, under the flush lock.
MarkDirty(d) == [d EXCEPT !.dirty = TRUE]

\* The value of a Datastore that New returns.
NewDatastore ==
    [path |-> NoPath, signature |-> "", dirty |-> FALSE, Collections |-> <<>>]

NoHist == [c \in CollNames |-> [issued |-> {}, zeroUpserts |-> 0]]

\* A nil *Datastore as the result of a call, and a Datastore d as the result.
NoDatastore == [nil |-> TRUE, ds |-> NewDatastore]
Returned(d) == [nil |-> FALSE, ds |-> d]

\* (variant) the signature is used as the caller gave it
SignatureBare(s) == s

Signature(s) == "datastore:" \o s

\* ------------------------------------------------------------- the files
\* (variant) Flush writes in place
TempInPlace(p) == p

\* temp := d.path + ".tmp"
Temp(p) == p \o ".tmp"

Files == {PathGood, Temp(PathGood), PathNoDir, Temp(PathNoDir), NoPath, Temp(NoPath)}

\* The directory of PathNoDir does not exist; the empty name names no file.
DirExists(f) == f \notin {PathNoDir, Temp(PathNoDir)}
ValidName(f) == f # ""

\* (A file is foreign when its gzip stream is complete and its gob stream
\* names a type that is not registered: it cannot be decoded.)
\* A file is absent, empty (created, nothing written), partial (gzip header
\* and gob stream written, the gzip stream not yet closed) or complete.  sig
\* is the gzip header comment and body the gob stream; hist is the history
\* of the collections in body, carried for the statements about key reuse.
NoFile == [state |-> "absent", sig |-> "", body |-> <<>>, hist |-> NoHist]
EmptyFile == [state |-> "empty", sig |-> "", body |-> <<>>, hist |-> NoHist]

\* gob encoding of the Datastore: the exported fields only (Collections; of
\* a Collection Type, Items, CurrentIndex), each document by value.
Encode(d, ids) ==
    [n \in DOMAIN d.Collections |->
        [Type |-> d.Collections[n].Type,
         CurrentIndex |-> d.Collections[n].CurrentIndex,
         Items |-> [k \in DOMAIN d.Collections[n].Items |->
                       [doc |-> d.Collections[n].Items[k],
                        Identifier |-> ids[d.Collections[n].Items[k]]]]]]

\* (variant) the counter is not restored from the snapshot
DecodeCollectionsNoCounter(body) ==
    [n \in DOMAIN body |->
        [Type |-> body[n].Type,
         Items |-> [k \in DOMAIN body[n].Items |-> body[n].Items[k].doc],
         CurrentIndex |-> 0,
         list |-> <<>>]]

\* gob decoding into a Datastore: unexported fields keep their zero value.
DecodeCollections(body) ==
    [n \in DOMAIN body |->
        [Type |-> body[n].Type,
         Items |-> [k \in DOMAIN body[n].Items |-> body[n].Items[k].doc],
         CurrentIndex |-> body[n].CurrentIndex,
         list |-> <<>>]]

\* The Identifier of every decoded document object.
DecodeIDs(body) ==
    LET held == {d \in Docs : \E n \in DOMAIN body : \E k \in DOMAIN body[n].Items :
                                  body[n].Items[k].doc = d}
    IN  [d \in held |->
            LET n == CHOOSE n \in DOMAIN body :
                         \E k \in DOMAIN body[n].Items : body[n].Items[k].doc = d
                k == CHOOSE k \in DOMAIN body[n].Items : body[n].Items[k].doc = d
            IN  body[n].Items[k].Identifier]

\* The steps of Flush at which the operating system can report an error.
FailPoints == {"none", "remove", "create", "encode", "wclose", "fclose", "rename"}

\* Flush touches no file when d is not dirty: nothing can fail then.
FailPointsOf(d) == IF d.dirty THEN FailPoints ELSE {"none"}

\* The Datastore that Create builds before it calls Flush.
Created(p, s) == [NewDatastore EXCEPT !.path = p, !.signature = Signature(s)]

\* (variant) a stale temporary file is left where it is
RemoveAllKeeps(files, f, fail) ==
    IF fail = "remove" THEN [err |-> ErrIO, fs |-> files]
    ELSE [err |-> ErrNil, fs |-> files]

\* os.RemoveAll(temp): no error when the file is not there.
RemoveAll(files, f, fail) ==
    IF fail = "remove" THEN [err |-> ErrIO, fs |-> files]
    ELSE [err |-> ErrNil, fs |-> [files EXCEPT ![f] = NoFile]]

\* os.OpenFile(temp, O_RDWR|O_CREATE|O_EXCL, 0644)
OpenFileExcl(files, f, fail) ==
    IF ~DirExists(f) THEN [err |-> ErrNotExist, fs |-> files]
    ELSE IF fail = "create" \/ files[f].state # "absent"
    THEN [err |-> ErrIO, fs |-> files]
    ELSE [err |-> ErrNil, fs |-> [files EXCEPT ![f] = EmptyFile]]

\* gzip.NewWriter, Comment = d.signature, encoder.Encode(d)
EncodeTo(files, f, d, ids, h, fail) ==
    IF fail = "encode" THEN [err |-> ErrIO, fs |-> files]
    ELSE [err |-> ErrNil,
          fs |-> [files EXCEPT ![f] = [state |-> "partial", sig |-> d.signature,
                                       body |-> Encode(d, ids), hist |-> h]]]

\* writer.Close(): the rest of the gzip stream and its trailer.
WriterClose(files, f, fail) ==
    IF fail = "wclose" THEN [err |-> ErrIO, fs |-> files]
    ELSE [err |-> ErrNil, fs |-> [files EXCEPT ![f].state = "complete"]]

\* file.Close()
FileClose(files, f, fail) ==
    IF fail = "fclose" THEN [err |-> ErrIO, fs |-> files]
    ELSE [err |-> ErrNil, fs |-> files]

\* os.Rename(temp, final): atomic, or an error and no change.
Rename(files, from, to, fail) ==
    IF ~ValidName(to) THEN [err |-> ErrNotExist, fs |-> files]
    ELSE IF fail = "rename" THEN [err |-> ErrIO, fs |-> files]
    ELSE [err |-> ErrNil, fs |-> [files EXCEPT ![to] = files[from], ![from] = NoFile]]

\* The bytes of a temporary file that stays behind are never read (Open is
\* given final paths only): the model keeps its state and header.
Leftover(files, p) ==
    [files EXCEPT ![Temp(p)].body = <<>>, ![Temp(p)].hist = NoHist]

\* Flush on Datastore d: the error returned and the files after the call.
FlushOp(d, files, ids, h, fail) ==
    IF ~d.dirty THEN [err |-> ErrNil, fs |-> files]
    ELSE
    LET temp  == Temp(d.path)
        final == d.path
        s1 == RemoveAll(files, temp, fail)
        s2 == OpenFileExcl(s1.fs, temp, fail)
        s3 == EncodeTo(s2.fs, temp, d, ids, h, fail)
        s4 == WriterClose(s3.fs, temp, fail)
        s5 == FileClose(s4.fs, temp, fail)
        s6 == Rename(s5.fs, temp, final, fail)
    IN  IF s1.err # ErrNil THEN s1
        ELSE IF s2.err # ErrNil THEN s2
        ELSE IF s3.err # ErrNil THEN s3
        ELSE IF s4.err # ErrNil THEN s4
        ELSE IF s5.err # ErrNil THEN s5
        ELSE s6

\* Create(path, signature): New, path and signature set, then Flush.
CreateOp(p, s, files, fail) ==
    LET d == Created(p, s)
        r == FlushOp(d, files, <<>>, NoHist, fail)
    IN  [err |-> r.err, fs |-> r.fs, ok |-> r.err = ErrNil,
         ds |-> d, docId |-> <<>>, hist |-> NoHist,
         got |-> IF r.err = ErrNil THEN Returned(d) ELSE NoDatastore]

\* (variant) the header comment is not compared
SignatureUnchecked(file, s) == FALSE

\* reader.Comment != Signature(signature)
SignatureMismatch(file, s) == file.sig # Signature(s)

\* What decoder.Decode(ds) has put into ds.Collections when it returns an
\* error: all that it decoded before the error, or nothing yet.  The lists
\* are not built: generateList has not run.
DecodedBeforeError(body, fail) ==
    IF fail = "early" THEN <<>> ELSE DecodeCollections(body)

\* The ways a call of Open can go on this file: os.OpenFile can fail; a
\* stream that does not decode can fail before or after the collections.
OpenFailsOf(file) ==
    IF file.state \in {"partial", "foreign"} THEN {"none", "open", "early"}
    ELSE {"none", "open"}

\* Open(path, signature): ok tells whether the call returned a nil error,
\* got is the *Datastore it returned.
OpenOp(p, s, files, fail) ==
    LET file == files[p]
        none == [err |-> ErrIO, fs |-> files, ok |-> FALSE, ds |-> NewDatastore,
                 docId |-> <<>>, hist |-> NoHist, got |-> NoDatastore]
        head == [path |-> p, signature |-> file.sig, dirty |-> FALSE,
                 Collections |-> <<>>]
        full == [head EXCEPT !.Collections =
                    [n \in DOMAIN file.body |->
                        generateList(DecodeCollections(file.body)[n],
                                     DecodeIDs(file.body))]]
    IN  IF file.state = "absent" THEN [none EXCEPT !.err = ErrNotExist]
        ELSE IF fail = "open" THEN [none EXCEPT !.err = ErrIO]
        ELSE IF file.state = "empty" THEN [none EXCEPT !.err = ErrGzip]
        ELSE IF SignatureMismatch(file, s)
        THEN [none EXCEPT !.err = ErrInvalidSignature]
        ELSE IF file.state # "complete"
        THEN [none EXCEPT
                !.err = ErrDecode,
                !.got = Returned([head EXCEPT !.Collections =
                                     DecodedBeforeError(file.body, fail)])]
        ELSE [err |-> ErrNil, fs |-> files, ok |-> TRUE, ds |-> full,
              docId |-> DecodeIDs(file.body), hist |-> file.hist,
              got |-> Returned(full)]

\* The goroutines of a concurrent program.
Threads == {"t1", "t2"}
NoThread == "none"

\* The locals of a goroutine: the calls it has made, and of the call it is
\* in the document, the key and the file it has opened.
NoLocals == [calls |-> 0, doc |-> "", key |-> 0, file |-> NoFile]

\* A sync.RWMutex: the goroutine that has called Lock (it holds the lock
\* once no reader is left, and no RLock gets past it), and how many times
\* each goroutine holds the read lock.
FreeMutex == [writer |-> NoThread, readers |-> [t \in Threads |-> 0]]

\* No goroutine has started a call; no lock is held.
ConcInit ==
    /\ pc = [t \in Threads |-> "idle"]
    /\ flock = NoThread
    /\ mutex = [n \in CollNames |-> FreeMutex]
    /\ loc = [t \in Threads |-> NoLocals]

\* The document objects that the collections cols hold.
Held(cols) ==
    {d \in Docs : \E n \in DOMAIN cols : \E k \in DOMAIN cols[n].Items :
                       cols[n].Items[k] = d}

TypeOK ==
    /\ live \in BOOLEAN
    /\ ds.dirty \in BOOLEAN
    /\ DOMAIN ds.Collections \subseteq CollNames
    /\ DOMAIN docId = Held(ds.Collections)
    /\ \A d \in DOMAIN docId : docId[d] \in 0..MaxIndex

Init ==
    /\ live = FALSE
    /\ ds = NewDatastore
    /\ docId = <<>>
    /\ fs = [f \in Files |-> NoFile]
    /\ ret = [op |-> "none", err |-> ErrNil, id |-> 0]
    /\ hist = NoHist
    /\ got = NoDatastore
    /\ ConcInit

\* New(): an in-memory Datastore with an empty collection map.
New ==
    /\ ~live
    /\ live' = TRUE
    /\ ds' = NewDatastore
    /\ hist' = NoHist
    /\ ret' = [op |-> "New", err |-> ErrNil, id |-> 0]
    /\ docId' = <<>>
    /\ got' = Returned(NewDatastore)
    /\ UNCHANGED <<fs, conc>>

\* (variant) In registers a new collection without looking for the name
InCollectionsFresh(cols, name) ==
    [n \in DOMAIN cols \cup {name} |->
        IF n = name THEN EmptyCollection ELSE cols[n]]

\* In(name): the registered collection, or a new empty one registered.
InCollections(cols, name) ==
    IF name \in DOMAIN cols THEN cols
    ELSE [n \in DOMAIN cols \cup {name} |->
              IF n = name THEN EmptyCollection ELSE cols[n]]

In(name) ==
    /\ live
    /\ ds' = [ds EXCEPT !.Collections = InCollections(ds.Collections, name)]
    /\ ret' = [op |-> "In", err |-> ErrNil, id |-> 0]
    /\ got' = NoDatastore
    /\ UNCHANGED <<live, docId, fs, hist, conc>>

\* docId follows the objects the Datastore holds; an object it does not hold
\* is the caller's, who passes it with whatever Identifier it then has.
Track(ids, cols) == [d \in Held(cols) |-> ids[d]]

\* The Identifier of d when ids gives none: that of the call's argument.
IdOf(ids, d, id) == IF d \in DOMAIN ids THEN ids[d] ELSE id

CanPass(d, id, own) ==
    IF d \in DOMAIN docId THEN id = docId[d] ELSE id \in {0} \cup own

\* Upsert(document) on the collection registered under name; id is the
\* Identifier of the document at the call.
Upsert(name, d, id) ==
    /\ live
    /\ name \in DOMAIN ds.Collections
    /\ id = 0 => ds.Collections[name].CurrentIndex < MaxIndex
    /\ LET marked == MarkDirty(ds)
           typed  == SetType(ds.Collections[name], CName(d))
           stored == UpsertLocked(typed.c, d, id)
       IN  IF typed.err # ErrNil
           THEN /\ ds' = marked
                /\ ret' = [op |-> "Upsert", err |-> typed.err, id |-> id]
                /\ UNCHANGED <<docId, hist>>
           ELSE /\ ds' = [marked EXCEPT !.Collections[name] = stored.c]
                /\ docId' = Track([x \in Docs |-> IF x = d THEN stored.id
                                                  ELSE IdOf(docId, x, 0)],
                                  ds'.Collections)
                /\ ret' = [op |-> "Upsert", err |-> ErrNil, id |-> stored.id]
                /\ hist' = IF id = 0
                           THEN [hist EXCEPT
                                   ![name].issued = @ \cup {stored.id},
                                   ![name].zeroUpserts = @ + 1]
                           ELSE hist
    /\ got' = NoDatastore
    /\ UNCHANGED <<live, fs, conc>>

\* DeleteKey(key) on the collection registered under name.
DeleteKey(name, key) ==
    /\ live
    /\ name \in DOMAIN ds.Collections
    /\ ds' = [MarkDirty(ds) EXCEPT
                !.Collections[name] = DeleteKeyLocked(ds.Collections[name], key)]
    /\ docId' = Track(docId, ds'.Collections)
    /\ ret' = [op |-> "DeleteKey", err |-> ErrNil, id |-> 0]
    /\ got' = NoDatastore
    /\ UNCHANGED <<live, fs, hist, conc>>

\* (variant) Delete leaves the Identifier of the document as it is
IdAfterDeleteKept(id) == id

\* document.SetID(0): the Identifier of the document when Delete returns.
IdAfterDelete(id) == 0

\* Delete(document): nothing for Identifier 0, else DeleteKey and SetID(0).
\* ret.id is the Identifier that the document has when the call returns.
Delete(name, d, id) ==
    /\ live
    /\ name \in DOMAIN ds.Collections
    /\ IF id = 0
       THEN /\ UNCHANGED <<ds, docId>>
            /\ ret' = [op |-> "Delete", err |-> ErrNil, id |-> id]
       ELSE /\ ds' = [MarkDirty(ds) EXCEPT
                        !.Collections[name] =
                            DeleteKeyLocked(ds.Collections[name], id)]
            /\ docId' = Track([x \in DOMAIN docId |->
                                  IF x = d THEN IdAfterDelete(id) ELSE docId[x]],
                              ds'.Collections)
            /\ ret' = [op |-> "Delete", err |-> ErrNil, id |-> IdAfterDelete(id)]
    /\ got' = NoDatastore
    /\ UNCHANGED <<live, fs, hist, conc>>

\* Init(name, document): In, then SetType; the collection stays registered
\* when SetType fails.
DatastoreInit(name, d) ==
    /\ live
    /\ LET cols  == InCollections(ds.Collections, name)
           typed == SetType(cols[name], CName(d))
       IN  /\ ds' = [ds EXCEPT !.Collections = [cols EXCEPT ![name] = typed.c]]
           /\ ret' = [op |-> "Init", err |-> typed.err, id |-> 0]
    /\ got' = NoDatastore
    /\ UNCHANGED <<live, docId, fs, hist, conc>>

Flush ==
    /\ live
    /\ \E fail \in FailPointsOf(ds) :
          LET r == FlushOp(ds, fs, docId, hist, fail)
          IN  /\ fs' = Leftover(r.fs, ds.path)
              /\ ret' = [op |-> "Flush", err |-> r.err, id |-> 0]
    /\ got' = NoDatastore
    /\ UNCHANGED <<live, ds, docId, hist, conc>>

\* The caller keeps the Datastore it has when a constructor returns none.
Adopt(op, p, r) ==
    /\ fs' = Leftover(r.fs, p)
    /\ ret' = [op |-> op, err |-> r.err, id |-> 0]
    /\ got' = r.got
    /\ UNCHANGED conc
    /\ IF r.ok
       THEN live' = TRUE /\ ds' = r.ds /\ docId' = r.docId /\ hist' = r.hist
       ELSE UNCHANGED <<live, ds, docId, hist>>

Create(p, s) ==
    /\ ~live
    /\ \E fail \in FailPointsOf(Created(p, s)) :
          Adopt("Create", p, CreateOp(p, s, fs, fail))

Open(p, s) ==
    \E fail \in OpenFailsOf(fs[p]) : Adopt("Open", p, OpenOp(p, s, fs, fail))

\* (variant) Create is called after any error of Open
IsAnyError(err) == err # ErrNil

\* err != nil && os.IsNotExist(err)
IsNotExist(err) == err # ErrNil /\ err = ErrNotExist

\* OpenOrCreate: Open, and Create when Open failed with os.IsNotExist.
OpenOrCreate(p, s) ==
    \E f1 \in OpenFailsOf(fs[p]) :
        LET o == OpenOp(p, s, fs, f1)
        IN  IF IsNotExist(o.err)
            THEN \E f2 \in FailPointsOf(Created(p, s)) :
                     Adopt("OpenOrCreate", p, CreateOp(p, s, fs, f2))
            ELSE Adopt("OpenOrCreate", p, o)

\* A nil Document.
NoDoc == ""

\* A finder is the set of documents for which the callback returns true; it
\* returns false for a nil Document.
Finders == SUBSET {"chocolate", "vanilla"}

\* c.Items[key]: the zero value, a nil Document, when key is not a key.
ItemAt(c, key) == IF key \in DOMAIN c.Items THEN c.Items[key] ELSE NoDoc

\* The loop of FindAll over the keys list: the documents the finder accepts,
\* in the order of the list.
RECURSIVE ScanAll(_, _, _)
ScanAll(c, list, finder) ==
    IF list = <<>> THEN <<>>
    ELSE IF ItemAt(c, Head(list)) \in finder
         THEN <<ItemAt(c, Head(list))>> \o ScanAll(c, Tail(list), finder)
         ELSE ScanAll(c, Tail(list), finder)

\* The loop of FindOne over the keys list: the first document the finder
\* accepts, or nil.
RECURSIVE ScanOne(_, _, _)
ScanOne(c, list, finder) ==
    IF list = <<>> THEN NoDoc
    ELSE IF ItemAt(c, Head(list)) \in finder THEN ItemAt(c, Head(list))
    ELSE ScanOne(c, Tail(list), finder)

\* A call that reads the collection registered under name: ret carries the
\* argument of the call and what it returned.
Query(name, r) ==
    /\ live
    /\ name \in DOMAIN ds.Collections
    /\ ret' = r
    /\ got' = NoDatastore
    /\ UNCHANGED <<live, ds, docId, fs, hist, conc>>

\* FindAll(finder) on the collection registered under name.
FindAll(name, finder) ==
    Query(name, [op |-> "FindAll", err |-> ErrNil, id |-> 0, finder |-> finder,
                 found |-> ScanAll(ds.Collections[name],
                                   List(ds.Collections[name]), finder)])

\* FindOne(finder) on the collection registered under name.
FindOne(name, finder) ==
    Query(name, [op |-> "FindOne", err |-> ErrNil, id |-> 0, finder |-> finder,
                 found |-> ScanOne(ds.Collections[name],
                                   List(ds.Collections[name]), finder)])

\* FindKey(key) on the collection registered under name.
FindKey(name, key) ==
    Query(name, [op |-> "FindKey", err |-> ErrNil, id |-> key,
                 found |-> ItemAt(ds.Collections[name], key)])

\* The keys a caller can name.
Keys == 1..MaxIndex

\* The read calls of the collection API.
QueryCall ==
    \/ \E name \in CollNames, finder \in Finders : FindAll(name, finder)
    \/ \E name \in CollNames, finder \in Finders : FindOne(name, finder)
    \/ \E name \in CollNames, key \in Keys : FindKey(name, key)

\* The collection API on a Datastore, called with the documents docs; own
\* are the Identifiers the caller gives to documents it builds itself.
CollectionCall(docs, own) ==
    \/ \E name \in CollNames : In(name)
    \/ \E name \in CollNames, d \in docs : DatastoreInit(name, d)
    \/ \E name \in CollNames, d \in docs, id \in 0..MaxIndex :
          CanPass(d, id, own) /\ Upsert(name, d, id)
    \/ \E name \in CollNames, key \in Keys : DeleteKey(name, key)
    \/ \E name \in CollNames, d \in docs, id \in 0..MaxIndex :
          CanPass(d, id, own) /\ Delete(name, d, id)

\* A program that keeps its Datastore in a file: two documents of one kind,
\* a document of its own making carries Identifier 1.
FileDocs == {"chocolate", "vanilla"}

Next ==
    \/ New
    \/ \E p \in Paths, s \in Sigs : Create(p, s)
    \/ \E p \in Paths, s \in Sigs : Open(p, s)
    \/ \E p \in Paths, s \in Sigs : OpenOrCreate(p, s)
    \/ Flush
    \/ CollectionCall(FileDocs, {1})

Spec == Init /\ [][Next]_vars

\* A program that works on an in-memory Datastore only: documents of two
\* kinds, with any key as the Identifier of a document of its own making.
MemDocs == {"chocolate", "vanilla", "number"}

NextMem ==
    \/ New
    \/ CollectionCall(MemDocs, Keys)
    \/ QueryCall

SpecMem == Init /\ [][NextMem]_vars

\* A program that has upserted three new documents into "cake" (the cakes of
\* TestCollection_FindKey) and then deletes documents, upserts documents
\* that carry a key, and reads.
ListKeys == {1, 2, 3}

ThreeCakes ==
    [Type |-> NameKind,
     Items |-> <<"chocolate", "vanilla", "strawberry">>,
     CurrentIndex |-> Cardinality(ListKeys),
     list |-> <<1, 2, 3>>]

InitList ==
    /\ live = TRUE
    /\ ds = [MarkDirty(NewDatastore) EXCEPT !.Collections = [n \in CollNames |-> ThreeCakes]]
    /\ docId = [d \in {"chocolate", "vanilla", "strawberry"} |->
                   CHOOSE k \in ListKeys : ThreeCakes.Items[k] = d]
    /\ fs = [f \in Files |-> NoFile]
    /\ ret = [op |-> "Upsert", err |-> ErrNil, id |-> ThreeCakes.CurrentIndex]
    /\ hist = [c \in CollNames |->
                  [issued |-> ListKeys, zeroUpserts |-> ThreeCakes.CurrentIndex]]
    /\ got = NoDatastore
    /\ ConcInit

NextList ==
    \/ \E name \in CollNames, key \in ListKeys : DeleteKey(name, key)
    \/ \E name \in CollNames, d \in DOMAIN docId, id \in ListKeys \cup {0} :
          CanPass(d, id, ListKeys) /\ Delete(name, d, id)
    \/ \E name \in CollNames, d \in {"chocolate", "vanilla", "strawberry"},
          id \in ListKeys :
          CanPass(d, id, ListKeys) /\ Upsert(name, d, id)
    \/ QueryCall

SpecList == InitList /\ [][NextList]_vars

\* ------------------------------------------------- concurrent goroutines
\* The goroutines work on the Datastore that the program has created at
\* PathGood and on its collection "cake"; every step below is one access
\* to shared memory, to a lock or to a file.
TheColl == "cake"

\* The variables that only the sequential program changes.
seqOnly == <<live, ret, hist, got>>

\* A goroutine that has crashed has ended the program.
NoCrash == \A t \in Threads : pc[t] # "crashed"

Goto(t, p) == pc' = [pc EXCEPT ![t] = p]

CanCall(t) == NoCrash /\ pc[t] = "idle" /\ loc[t].calls < MaxCalls

At(t, p) == NoCrash /\ pc[t] = p

\* The document that goroutine t builds for its i-th call, Identifier 0.
NewDoc(t, i) == t \o "." \o ToString(i)

\* The string c.Type while one of its two words has been stored.
Torn == "torn"

\* (variant) d.flush is still held when the call goes on
FlushKept(t) == t

\* The holder of d.flush after c.datastore.flush.Unlock().
FlushUnlocked(t) == NoThread

\* c.datastore.flush.Lock(); c.datastore.dirty = true
MarkBegin(t, op, doc, key) ==
    /\ CanCall(t)
    /\ flock = NoThread
    /\ flock' = t
    /\ ds' = MarkDirty(ds)
    /\ loc' = [loc EXCEPT ![t] = [calls |-> @.calls + 1, doc |-> doc,
                                   key |-> key, file |-> NoFile]]
    /\ Goto(t, op \o "unflush")
    /\ UNCHANGED <<docId, fs, mutex, seqOnly>>

\* c.datastore.flush.Unlock()
MarkEnd(t, op, next) ==
    /\ At(t, op \o "unflush")
    /\ flock' = FlushUnlocked(t)
    /\ Goto(t, next)
    /\ UNCHANGED <<ds, docId, fs, mutex, loc, seqOnly>>

\* c.mutex.Lock(): no other goroutine is in Lock; the lock is held at once
\* when no reader holds it.
WLock(t, from, wait, in) ==
    /\ At(t, from)
    /\ mutex[TheColl].writer = NoThread
    /\ mutex' = [mutex EXCEPT ![TheColl].writer = t]
    /\ Goto(t, IF \A r \in Threads : mutex[TheColl].readers[r] = 0
                THEN in ELSE wait)
    /\ UNCHANGED <<ds, docId, fs, flock, loc, seqOnly>>

\* c.mutex.Lock() returns when the last reader has left.
WEnter(t, wait, in) ==
    /\ At(t, wait)
    /\ \A r \in Threads : mutex[TheColl].readers[r] = 0
    /\ Goto(t, in)
    /\ UNCHANGED <<ds, docId, fs, flock, mutex, loc, seqOnly>>

U_Begin(t) == MarkBegin(t, "u_", NewDoc(t, loc[t].calls + 1), 0)

U_Unflush(t) == MarkEnd(t, "u_", "u_type")

\* SetType reads c.Type, outside every lock.
U_Type(t) ==
    /\ At(t, "u_type")
    /\ ds.Collections[TheColl].Type # Torn
    /\ LET typed == SetType(ds.Collections[TheColl], NameKind)
       IN  Goto(t, IF ds.Collections[TheColl].Type = "" THEN "u_tw1"
                   ELSE IF typed.err = ErrNil THEN "u_lock" ELSE "idle")
    /\ UNCHANGED <<ds, docId, fs, flock, mutex, loc, seqOnly>>

\* SetType reads c.Type while another goroutine has stored one of its two
\* words (a data race): a string of length 0, or a length with no bytes
\* behind it, on which the comparison faults.
U_TypeTorn(t) ==
    /\ At(t, "u_type")
    /\ ds.Collections[TheColl].Type = Torn
    /\ \/ Goto(t, "u_tw1")
       \/ Goto(t, "crashed")
    /\ UNCHANGED <<ds, docId, fs, flock, mutex, loc, seqOnly>>

\* c.Type = kind, the first word
U_TypeW1(t) ==
    /\ At(t, "u_tw1")
    /\ ds' = [ds EXCEPT !.Collections[TheColl].Type = IF @ = "" THEN Torn ELSE @]
    /\ Goto(t, "u_tw2")
    /\ UNCHANGED <<docId, fs, flock, mutex, loc, seqOnly>>

\* c.Type = kind, the second word
U_TypeW2(t) ==
    /\ At(t, "u_tw2")
    /\ ds' = [ds EXCEPT !.Collections[TheColl] =
                  SetType([@ EXCEPT !.Type = ""], NameKind).c]
    /\ Goto(t, "u_lock")
    /\ UNCHANGED <<docId, fs, flock, mutex, loc, seqOnly>>

U_Lock(t) == WLock(t, "u_lock", "u_wait", "u_index")

U_Enter(t) == WEnter(t, "u_wait", "u_index")

\* if document.ID() == 0 { CurrentIndex += 1; SetID; append to the list }
U_Index(t) ==
    /\ At(t, "u_index")
    /\ LET c  == ds.Collections[TheColl]
           ci == IF loc[t].key = 0 THEN NextIndex(c.CurrentIndex) ELSE c.CurrentIndex
           id == IF loc[t].key = 0 THEN ci ELSE loc[t].key
       IN  /\ ds' = [ds EXCEPT !.Collections[TheColl] =
                        [c EXCEPT !.CurrentIndex = ci,
                                  !.list = ListAfterUpsert(c.list, loc[t].key, id)]]
           /\ loc' = [loc EXCEPT ![t].key = id]
    /\ Goto(t, "u_store")
    /\ UNCHANGED <<docId, fs, flock, mutex, seqOnly>>

\* c.Items[document.ID()] = document; c.mutex.Unlock()
U_Store(t) ==
    /\ At(t, "u_store")
    /\ LET c == ds.Collections[TheColl]
       IN  ds' = [ds EXCEPT !.Collections[TheColl].Items =
                     [k \in DOMAIN c.Items \cup {loc[t].key} |->
                         IF k = loc[t].key THEN loc[t].doc ELSE c.Items[k]]]
    /\ docId' = [d \in DOMAIN docId \cup {loc[t].doc} |->
                    IF d = loc[t].doc THEN loc[t].key ELSE docId[d]]
    /\ mutex' = [mutex EXCEPT ![TheColl].writer = NoThread]
    /\ Goto(t, "idle")
    /\ UNCHANGED <<fs, flock, loc, seqOnly>>

\* The steps of Upsert on a collection whose Type is set.
UpsertSteps(t) ==
    \/ U_Begin(t)
    \/ U_Unflush(t)
    \/ U_Type(t)
    \/ U_Lock(t)
    \/ U_Index(t)
    \/ U_Store(t)

\* The further steps of Upsert on a collection that has no Type yet.
TypeSteps(t) ==
    \/ U_TypeTorn(t)
    \/ U_TypeW1(t)
    \/ U_TypeW2(t)

\* The program has called Create(PathGood, "v1") and then In (kind "") or
\* Init (kind of the document) for the collection, and starts goroutines.
ConcStart(kind) ==
    /\ live = TRUE
    /\ ds = [Created(PathGood, "v1") EXCEPT
                !.Collections = [n \in {TheColl} |->
                                    [EmptyCollection EXCEPT !.Type = kind]]]
    /\ docId = <<>>
    /\ fs = [f \in Files |-> NoFile]
    /\ ret = [op |-> "none", err |-> ErrNil, id |-> 0]
    /\ hist = NoHist
    /\ got = NoDatastore
    /\ ConcInit

\* Goroutines that only Upsert new documents into a collection made by In.
InitRace == ConcStart("")

NextRace == \E t \in Threads : UpsertSteps(t) \/ TypeSteps(t)

SpecRace == InitRace /\ [][NextRace]_vars

\* The keys that a goroutine passes to DeleteKey and FindKey.
ConcKeys == 1..MaxIndex

D_Begin(t) == \E key \in ConcKeys : MarkBegin(t, "d_", "", key)

D_Unflush(t) == MarkEnd(t, "d_", "d_lock")

D_Lock(t) == WLock(t, "d_lock", "d_wait", "d_items")

D_Enter(t) == WEnter(t, "d_wait", "d_items")

\* delete(c.Items, key)
D_Items(t) ==
    /\ At(t, "d_items")
    /\ LET c == ds.Collections[TheColl]
       IN  /\ ds' = [ds EXCEPT !.Collections[TheColl].Items =
                        [k \in DOMAIN c.Items \ {loc[t].key} |-> c.Items[k]]]
           /\ docId' = [d \in {c.Items[k] : k \in DOMAIN c.Items \ {loc[t].key}}
                           |-> docId[d]]
    /\ Goto(t, "d_list")
    /\ UNCHANGED <<fs, flock, mutex, loc, seqOnly>>

\* deleteKeyFromList(&c.list, key); c.mutex.Unlock()
D_List(t) ==
    /\ At(t, "d_list")
    /\ ds' = [ds EXCEPT !.Collections[TheColl].list =
                  deleteKeyFromList(@, loc[t].key)]
    /\ mutex' = [mutex EXCEPT ![TheColl].writer = NoThread]
    /\ Goto(t, "idle")
    /\ UNCHANGED <<docId, fs, flock, loc, seqOnly>>

DeleteSteps(t) ==
    \/ D_Begin(t)
    \/ D_Unflush(t)
    \/ D_Lock(t)
    \/ D_Items(t)
    \/ D_List(t)

\* (variant) Flush resets the flag when it has renamed the file
DirtyCleared(d) == FALSE

\* d.dirty when Flush returns nil after the rename: Flush assigns nothing
\* to it.
DirtyAfterFlush(d) == d.dirty

\* d.flush.Lock(); defer d.flush.Unlock(); if !d.dirty { return nil }
F_Begin(t) ==
    /\ CanCall(t)
    /\ flock = NoThread
    /\ loc' = [loc EXCEPT ![t] = [NoLocals EXCEPT !.calls = loc[t].calls + 1]]
    /\ IF ds.dirty
       THEN flock' = t /\ Goto(t, "f_remove")
       ELSE UNCHANGED <<flock, pc>>
    /\ UNCHANGED <<ds, docId, fs, mutex, seqOnly>>

\* One file operation of Flush: on an error Flush returns it and the
\* deferred Unlock runs; after the rename Flush returns nil.
FlushStep(t, at, next, r) ==
    /\ At(t, at)
    /\ IF r.err # ErrNil \/ next = "idle"
       THEN /\ fs' = Leftover(r.fs, ds.path)
            /\ flock' = NoThread
            /\ Goto(t, "idle")
       ELSE /\ fs' = r.fs
            /\ Goto(t, next)
            /\ UNCHANGED flock
    /\ ds' = IF r.err = ErrNil /\ next = "idle"
             THEN [ds EXCEPT !.dirty = DirtyAfterFlush(ds)] ELSE ds
    /\ UNCHANGED <<docId, mutex, loc, seqOnly>>

F_Remove(t) ==
    \E fail \in {"none", "remove"} :
        FlushStep(t, "f_remove", "f_create", RemoveAll(fs, Temp(ds.path), fail))

F_Create(t) ==
    \E fail \in {"none", "create"} :
        FlushStep(t, "f_create", "f_encode", OpenFileExcl(fs, Temp(ds.path), fail))

\* (variant) the temporary file is renamed before the writer is closed
AfterEncodeRenames == "f_rename"

\* What Flush does after encoder.Encode: writer.Close().
AfterEncode == "f_wclose"

\* encoder.Encode(d) reads the collections with no collection lock held.
F_Encode(t) ==
    \E fail \in {"none", "encode"} :
        FlushStep(t, "f_encode", AfterEncode,
                  EncodeTo(fs, Temp(ds.path), ds, docId, hist, fail))

\* encoder.Encode(d) ranges over c.Items while another goroutine writes
\* the map (a data race): the runtime can end the program.
F_EncodeRace(t) ==
    /\ At(t, "f_encode")
    /\ \E w \in Threads : pc[w] \in {"u_store", "d_items"}
    /\ Goto(t, "crashed")
    /\ UNCHANGED <<ds, docId, fs, flock, mutex, loc, seqOnly>>

F_WClose(t) ==
    \E fail \in {"none", "wclose"} :
        FlushStep(t, "f_wclose", "f_fclose", WriterClose(fs, Temp(ds.path), fail))

F_FClose(t) ==
    \E fail \in {"none", "fclose"} :
        FlushStep(t, "f_fclose", "f_rename", FileClose(fs, Temp(ds.path), fail))

F_Rename(t) ==
    \E fail \in {"none", "rename"} :
        FlushStep(t, "f_rename", "idle", Rename(fs, Temp(ds.path), ds.path, fail))

FlushSteps(t) ==
    \/ F_Begin(t)
    \/ F_Remove(t)
    \/ F_Create(t)
    \/ F_Encode(t)
    \/ F_EncodeRace(t)
    \/ F_WClose(t)
    \/ F_FClose(t)
    \/ F_Rename(t)

\* Open(PathGood, "v1") by a goroutine: os.Stat and os.OpenFile.  The open
\* file is the one the name refers to now, also after a later rename.
O_Begin(t) ==
    /\ CanCall(t)
    /\ loc' = [loc EXCEPT ![t] = [NoLocals EXCEPT !.calls = loc[t].calls + 1,
                                                  !.file = fs[PathGood]]]
    /\ Goto(t, IF fs[PathGood].state = "absent" THEN "idle" ELSE "o_read")
    /\ UNCHANGED <<ds, docId, fs, flock, mutex, seqOnly>>

\* gzip.NewReader, the signature check and decoder.Decode on the open file.
O_Read(t) ==
    /\ At(t, "o_read")
    /\ loc' = [loc EXCEPT ![t].file = NoFile]
    /\ Goto(t, "idle")
    /\ UNCHANGED <<ds, docId, fs, flock, mutex, seqOnly>>

OpenSteps(t) ==
    \/ O_Begin(t)
    \/ O_Read(t)

\* The program has called Create, Init, Upsert of one document and Flush,
\* and starts goroutines that call Upsert, DeleteKey, Flush and Open.
Flushed1 ==
    UpsertLocked(SetType(EmptyCollection, NameKind).c, "chocolate", 0).c

InitConc ==
    /\ live = TRUE
    /\ ds = [MarkDirty(Created(PathGood, "v1")) EXCEPT
                !.Collections = [n \in {TheColl} |-> Flushed1]]
    /\ docId = [d \in {"chocolate"} |-> 1]
    /\ fs = [f \in Files |->
                IF f = PathGood
                THEN [state |-> "complete", sig |-> ds.signature,
                      body |-> Encode(ds, docId), hist |-> NoHist]
                ELSE NoFile]
    /\ ret = [op |-> "none", err |-> ErrNil, id |-> 0]
    /\ hist = NoHist
    /\ got = NoDatastore
    /\ ConcInit

NextConc ==
    \E t \in Threads :
        UpsertSteps(t) \/ DeleteSteps(t) \/ FlushSteps(t) \/ OpenSteps(t)

SpecConc == InitConc /\ [][NextConc]_vars

\* (variant) RLock does not wait for a writer
CanRLockAlways(n) == TRUE

\* c.mutex.RLock() gets the lock when no goroutine has called Lock: it
\* waits for a writer that holds the lock and for one that waits for it.
CanRLock(n) == mutex[n].writer = NoThread

RLock(t) ==
    /\ CanRLock(TheColl)
    /\ mutex' = [mutex EXCEPT ![TheColl].readers[t] = @ + 1]

RUnlock(t) == mutex' = [mutex EXCEPT ![TheColl].readers[t] = @ - 1]

\* A call of a reading method: c.mutex.RLock()
ReadBegin(t, key, to) ==
    /\ CanCall(t)
    /\ RLock(t)
    /\ loc' = [loc EXCEPT ![t] = [NoLocals EXCEPT !.calls = loc[t].calls + 1,
                                                  !.key = key]]
    /\ Goto(t, to)
    /\ UNCHANGED <<ds, docId, fs, flock, seqOnly>>

\* The read of Items or of the list, and c.mutex.RUnlock()
ReadEnd(t, at, to) ==
    /\ At(t, at)
    /\ RUnlock(t)
    /\ Goto(t, to)
    /\ UNCHANGED <<ds, docId, fs, flock, loc, seqOnly>>

\* FindKey(key)
K_Begin(t) == \E key \in ConcKeys : ReadBegin(t, key, "k_read")

K_Read(t) == ReadEnd(t, "k_read", "idle")

\* List()
L_Begin(t) == ReadBegin(t, 0, "l_read")

L_Read(t) == ReadEnd(t, "l_read", "idle")

\* FindAll and FindOne: RLock, then c.List(), which takes RLock again.
A_Begin(t) == ReadBegin(t, 0, "a_list")

A_List(t) ==
    /\ At(t, "a_list")
    /\ RLock(t)
    /\ Goto(t, "a_listed")
    /\ UNCHANGED <<ds, docId, fs, flock, loc, seqOnly>>

\* List returns c.list and releases its read lock.
A_Listed(t) == ReadEnd(t, "a_listed", "a_items")

\* finder(c.Items[key]) for the keys of the list; RUnlock
A_Items(t) == ReadEnd(t, "a_items", "idle")

ReadSteps(t) ==
    \/ K_Begin(t)
    \/ K_Read(t)
    \/ L_Begin(t)
    \/ L_Read(t)
    \/ A_Begin(t)
    \/ A_List(t)
    \/ A_Listed(t)
    \/ A_Items(t)

\* Lock returns to a writer that had to wait for readers.
WaitSteps(t) ==
    \/ U_Enter(t)
    \/ D_Enter(t)

\* Goroutines that call Upsert, DeleteKey and the reading methods.
NextReaders ==
    \E t \in Threads :
        UpsertSteps(t) \/ DeleteSteps(t) \/ WaitSteps(t) \/ ReadSteps(t)

SpecReaders == InitConc /\ [][NextReaders]_vars

\* The locks are held by goroutines that are inside a call.
LocksOK ==
    /\ flock \in Threads \cup {NoThread}
    /\ flock # NoThread => pc[flock] # "idle"
    /\ \A n \in CollNames :
          /\ mutex[n].writer \in Threads \cup {NoThread}
          /\ mutex[n].writer # NoThread => pc[mutex[n].writer] # "idle"
          /\ \A t \in Threads : mutex[n].readers[t] \in 0..2

\* A program that starts with a file already at PathGood and opens it with
\* the signature of the file or with another one.
AllSigs == {"v1", "candy"}

OnDiskBody ==
    [n \in {"cake"} |->
        [Type |-> NameKind, CurrentIndex |-> 1,
         Items |-> [k \in {1} |-> [doc |-> "chocolate", Identifier |-> 1]]]]

OnDiskHist == [c \in CollNames |-> [issued |-> {1}, zeroUpserts |-> 1]]

\* The files that can be at PathGood when the program starts: none, one
\* that is no gzip stream, and snapshots that are complete, truncated or
\* not decodable, written under either signature.
DiskFiles ==
    {NoFile, EmptyFile} \cup
    {[state |-> st, sig |-> Signature(s), body |-> OnDiskBody, hist |-> OnDiskHist] :
        st \in {"complete", "partial", "foreign"}, s \in AllSigs}

InitOpen ==
    /\ live = FALSE
    /\ ds = NewDatastore
    /\ docId = <<>>
    /\ \E file \in DiskFiles :
          fs = [f \in Files |-> IF f = PathGood THEN file ELSE NoFile]
    /\ ret = [op |-> "none", err |-> ErrNil, id |-> 0]
    /\ hist = NoHist
    /\ got = NoDatastore
    /\ ConcInit

\* ReadSignature(path): the header comment of the gzip stream; the body is
\* not read.
ReadSignature(p) ==
    /\ \E fail \in {"none", "open"} :
          ret' = [op |-> "ReadSignature", id |-> 0,
                  err |-> IF fs[p].state = "absent" THEN ErrNotExist
                          ELSE IF fail = "open" THEN ErrIO
                          ELSE IF fs[p].state = "empty" THEN ErrGzip
                          ELSE ErrNil,
                  signature |-> IF fs[p].state \in {"absent", "empty"} \/ fail = "open"
                                THEN "" ELSE fs[p].sig]
    /\ got' = NoDatastore
    /\ UNCHANGED <<live, ds, docId, fs, hist, conc>>

NextOpen ==
    \/ \E p \in Paths, s \in AllSigs : Open(p, s)
    \/ \E p \in Paths, s \in AllSigs : OpenOrCreate(p, s)
    \/ Flush
    \/ CollectionCall({"vanilla"}, {})

SpecOpen == InitOpen /\ [][NextOpen]_vars

\* A program that creates, opens and flushes Datastores under either
\* signature, reads signatures, and upserts new documents in between.
NextSig ==
    \/ \E p \in Paths, s \in AllSigs : Create(p, s)
    \/ \E p \in Paths, s \in AllSigs : Open(p, s)
    \/ \E p \in Paths, s \in AllSigs : OpenOrCreate(p, s)
    \/ \E p \in Paths : ReadSignature(p)
    \/ Flush
    \/ \E name \in CollNames : In(name)
    \/ \E name \in CollNames :
          CanPass("vanilla", 0, {}) /\ Upsert(name, "vanilla", 0)

SpecSig == InitOpen /\ [][NextSig]_vars

\* ------------------------------------------------ goroutines that call In
\* d.Collections maps a name to a *Collection.  Here a pointer is the name of
\* the goroutine whose In call made the Collection, ds.Collections holds the
\* pointer registered under the name, and loc[t].obj is the Collection that
\* t made, loc[t].c the pointer that In returned to t.
NoPointer == "nil"

InLocals == [calls |-> 0, doc |-> "", key |-> 0, file |-> NoFile,
             c |-> NoPointer, obj |-> EmptyCollection]

\* A goroutine is inside d.Collections[name] = c.
MapWriter == \E u \in Threads : pc[u] = "i_reg"

\* c, ok := d.Collections[name] while no goroutine writes the map.
I_Look(t) ==
    /\ CanCall(t)
    /\ ~MapWriter
    /\ IF TheColl \in DOMAIN ds.Collections
       THEN /\ loc' = [loc EXCEPT ![t].c = ds.Collections[TheColl]]
            /\ Goto(t, "i_upsert")
       ELSE /\ Goto(t, "i_write")
            /\ UNCHANGED loc
    /\ UNCHANGED <<ds, docId, fs, flock, mutex, seqOnly>>

\* The same read while another goroutine writes the map (a data race): the
\* runtime stops the program when it notices, and otherwise the read sees
\* the map without the entry.
I_LookRace(t) ==
    /\ CanCall(t)
    /\ MapWriter
    /\ \/ Goto(t, "crashed")
       \/ Goto(t, "i_write")
    /\ UNCHANGED <<ds, docId, fs, flock, mutex, loc, seqOnly>>

\* c := &Collection{...}; the assignment d.Collections[name] = c begins.  A
\* second writer of the map is a data race: the runtime stops the program
\* when it notices it.
I_Write(t) ==
    /\ At(t, "i_write")
    /\ loc' = [loc EXCEPT ![t].obj = EmptyCollection]
    /\ \/ Goto(t, "i_reg")
       \/ MapWriter /\ Goto(t, "crashed")
    /\ UNCHANGED <<ds, docId, fs, flock, mutex, seqOnly>>

\* d.Collections[name] = c; return c
I_Reg(t) ==
    /\ At(t, "i_reg")
    /\ ds' = [ds EXCEPT !.Collections = [n \in {TheColl} |-> t]]
    /\ loc' = [loc EXCEPT ![t].c = t]
    /\ Goto(t, "i_upsert")
    /\ UNCHANGED <<docId, fs, flock, mutex, seqOnly>>

\* Upsert of a new document on the Collection that In returned.
I_Upsert(t) ==
    /\ At(t, "i_upsert")
    /\ LET doc    == NewDoc(t, loc[t].calls + 1)
           owner  == loc[t].c
           stored == UpsertLocked(SetType(loc[owner].obj, NameKind).c, doc, 0)
       IN  /\ loc' = [u \in Threads |->
                        [loc[u] EXCEPT
                           !.obj = IF u = owner THEN stored.c ELSE @,
                           !.calls = IF u = t THEN @ + 1 ELSE @]]
           /\ docId' = [d \in DOMAIN docId \cup {doc} |->
                           IF d = doc THEN stored.id ELSE docId[d]]
    /\ ds' = MarkDirty(ds)
    /\ Goto(t, "idle")
    /\ UNCHANGED <<fs, flock, mutex, seqOnly>>

InitIn ==
    /\ live = TRUE
    /\ ds = NewDatastore
    /\ docId = <<>>
    /\ fs = [f \in Files |-> NoFile]
    /\ ret = [op |-> "New", err |-> ErrNil, id |-> 0]
    /\ hist = NoHist
    /\ got = Returned(NewDatastore)
    /\ pc = [t \in Threads |-> "idle"]
    /\ flock = NoThread
    /\ mutex = [n \in CollNames |-> FreeMutex]
    /\ loc = [t \in Threads |-> InLocals]

NextIn ==
    \E t \in Threads :
        I_Look(t) \/ I_LookRace(t) \/ I_Write(t) \/ I_Reg(t) \/ I_Upsert(t)

SpecIn == InitIn /\ [][NextIn]_vars

\* ------------------------------------------- the zero-value Datastore
\* A program that makes its Datastore with New() or as &datastore.Datastore{},
\* the way the README shows for in-memory use, and then calls the API.
ErrPanic == "panic: assignment to entry in nil map"

\* &datastore.Datastore{}: every field has its zero value, so Collections is
\* the nil map (New, Create and Open give it an empty map instead).
ZeroDatastore ==
    [path |-> NoPath, signature |-> "", dirty |-> FALSE, Collections |-> <<>>,
     nilCollections |-> TRUE]

IsNilMap(d) == "nilCollections" \in DOMAIN d

ZeroValue ==
    /\ ~live
    /\ live' = TRUE
    /\ ds' = ZeroDatastore
    /\ hist' = NoHist
    /\ ret' = [op |-> "&Datastore{}", err |-> ErrNil, id |-> 0]
    /\ docId' = <<>>
    /\ got' = Returned(ZeroDatastore)
    /\ UNCHANGED <<fs, conc>>

\* In(name) on a Datastore whose Collections is nil: the lookup misses (a
\* read of a nil map gives the zero value), the Collection is made, and the
\* assignment d.Collections[name] = c panics; nothing is registered.
InNil(name) ==
    /\ live
    /\ IsNilMap(ds)
    /\ ret' = [op |-> "In", err |-> ErrPanic, id |-> 0]
    /\ got' = NoDatastore
    /\ UNCHANGED <<live, ds, docId, fs, hist, conc>>

\* The program runs until a call panics.
Running == ret.err # ErrPanic

NextZero ==
    \/ New
    \/ ZeroValue
    \/ \E name \in CollNames : Running /\ InNil(name)
    \/ Running /\ ~IsNilMap(ds) /\ CollectionCall(MemDocs, Keys)
    \/ Running /\ ~IsNilMap(ds) /\ QueryCall

SpecZero == Init /\ [][NextZero]_vars

\* ------------------------------------------- Upserts of two kinds
\* Goroutine t1 upserts NameDocuments and every other goroutine
\* NumberDocuments, into a collection made by In.
KindOf(t) == IF t = "t1" THEN NameKind ELSE NumberKind

\* SetType(document) with the goroutine's kind: the read of c.Type.
V_Type(t) ==
    /\ At(t, "u_type")
    /\ ds.Collections[TheColl].Type # Torn
    /\ LET typed == SetType(ds.Collections[TheColl], KindOf(t))
       IN  Goto(t, IF ds.Collections[TheColl].Type = "" THEN "u_tw1"
                   ELSE IF typed.err = ErrNil THEN "u_lock" ELSE "idle")
    /\ UNCHANGED <<ds, docId, fs, flock, mutex, loc, seqOnly>>

\* c.Type = kind, the second word
V_TypeW2(t) ==
    /\ At(t, "u_tw2")
    /\ ds' = [ds EXCEPT !.Collections[TheColl] =
                  SetType([@ EXCEPT !.Type = ""], KindOf(t)).c]
    /\ Goto(t, "u_lock")
    /\ UNCHANGED <<docId, fs, flock, mutex, loc, seqOnly>>

NextKinds ==
    \E t \in Threads :
        \/ U_Begin(t)
        \/ U_Unflush(t)
        \/ V_Type(t)
        \/ U_TypeTorn(t)
        \/ U_TypeW1(t)
        \/ V_TypeW2(t)
        \/ U_Lock(t)
        \/ U_Index(t)
        \/ U_Store(t)

SpecKinds == InitRace /\ [][NextKinds]_vars

\* ------------------------------------------------ the list as a slice
\* c.list is a Go slice: a backing array, the position in it where the slice
\* starts, and a length.  Here a Collection carries, next to list, the fields
\* array (the backing array, as long as its capacity) and off; list is what
\* the slice shows.  The caller keeps the slice that List() returned, which
\* shares the backing array with c.list.
\* append(c.list, key): into the array when it has room behind the slice,
\* else into a new array of twice the capacity.
appendSlice(array, off, list, key) ==
    IF off + Len(list) < Len(array)
    THEN [array |-> [array EXCEPT ![off + Len(list) + 1] = key],
          off |-> off, moved |-> FALSE]
    ELSE LET cap    == Len(array) - off
             newcap == IF cap = 0 THEN 1 ELSE 2 * cap
         IN  [array |-> [i \in 1..newcap |->
                            IF i <= Len(list) THEN list[i]
                            ELSE IF i = Len(list) + 1 THEN key ELSE 0],
              off |-> 0, moved |-> TRUE]

\* deleteKeyFromList on the slice: the first branch moves the start, the
\* last branch only shortens, the middle branch copies the tail one place
\* down inside the array.
deleteKeyFromSlice(array, off, list, key) ==
    LET idx == binarySearchList(list, key)
    IN  IF idx < 0 THEN [array |-> array, off |-> off]
        ELSE IF idx = 0 THEN [array |-> array, off |-> off + 1]
        ELSE IF idx = Len(list) - 1 THEN [array |-> array, off |-> off]
        ELSE [array |-> [i \in 1..Len(array) |->
                            IF i >= off + idx + 1 /\ i <= off + Len(list) - 1
                            THEN array[i + 1] ELSE array[i]],
              off |-> off]

\* The slice a caller holds: none, or one that shares the array of c.list
\* (shared) or lies in an array that c.list has left (array); taken is
\* what it showed when List() returned.
NoSlice ==
    [held |-> FALSE, shared |-> FALSE, array |-> <<>>, off |-> 0, len |-> 0,
     taken |-> <<>>]

Caller == "t1"

\* What the caller's slice shows now.
Shows(sl, c) ==
    LET a == IF sl.shared THEN c.array ELSE sl.array
    IN  SubSeq(a, sl.off + 1, sl.off + sl.len)

\* The caller's slice when c.list has moved to a new array.
Left(sl, c) == IF sl.shared THEN [sl EXCEPT !.shared = FALSE, !.array = c.array] ELSE sl

\* keys := c.List()
SliceList(name) ==
    /\ live
    /\ name \in DOMAIN ds.Collections
    /\ LET c == ds.Collections[name]
       IN  loc' = [loc EXCEPT ![Caller] =
                      [held |-> TRUE, shared |-> TRUE, array |-> <<>>,
                       off |-> c.off, len |-> Len(List(c)), taken |-> List(c)]]
    /\ ret' = [op |-> "List", err |-> ErrNil, id |-> 0]
    /\ got' = NoDatastore
    /\ UNCHANGED <<live, ds, docId, fs, hist, pc, flock, mutex>>

\* Upsert(document), with the append done on the slice.
SliceUpsert(name, d, id) ==
    /\ live
    /\ name \in DOMAIN ds.Collections
    /\ id = 0 => ds.Collections[name].CurrentIndex < Cardinality(ListKeys) + MaxIndex
    /\ LET c      == ds.Collections[name]
           marked == MarkDirty(ds)
           typed  == SetType(c, CName(d))
           stored == UpsertLocked(typed.c, d, id)
           mem    == IF id = 0 THEN appendSlice(c.array, c.off, c.list, stored.id)
                     ELSE [array |-> c.array, off |-> c.off, moved |-> FALSE]
       IN  IF typed.err # ErrNil
           THEN /\ ds' = marked
                /\ ret' = [op |-> "Upsert", err |-> typed.err, id |-> id]
                /\ UNCHANGED <<docId, hist, loc>>
           ELSE /\ ds' = [marked EXCEPT !.Collections[name] =
                            [stored.c EXCEPT !.array = mem.array, !.off = mem.off]]
                /\ docId' = Track([x \in Docs |-> IF x = d THEN stored.id
                                                  ELSE IdOf(docId, x, 0)],
                                  ds'.Collections)
                /\ ret' = [op |-> "Upsert", err |-> ErrNil, id |-> stored.id]
                /\ hist' = IF id = 0
                           THEN [hist EXCEPT
                                   ![name].issued = @ \cup {stored.id},
                                   ![name].zeroUpserts = @ + 1]
                           ELSE hist
                /\ loc' = IF mem.moved
                          THEN [loc EXCEPT ![Caller] = Left(@, c)] ELSE loc
    /\ got' = NoDatastore
    /\ UNCHANGED <<live, fs, pc, flock, mutex>>

\* DeleteKey(key), with deleteKeyFromList done on the slice.
SliceDeleteKey(name, key) ==
    /\ live
    /\ name \in DOMAIN ds.Collections
    /\ LET c   == ds.Collections[name]
           mem == deleteKeyFromSlice(c.array, c.off, c.list, key)
       IN  ds' = [MarkDirty(ds) EXCEPT !.Collections[name] =
                     [DeleteKeyLocked(c, key) EXCEPT !.array = mem.array,
                                                     !.off = mem.off]]
    /\ docId' = Track(docId, ds'.Collections)
    /\ ret' = [op |-> "DeleteKey", err |-> ErrNil, id |-> 0]
    /\ got' = NoDatastore
    /\ UNCHANGED <<live, fs, hist, conc>>

\* The three cakes after three Upserts: append has grown the array of the
\* nil list to capacity 1, 2 and then 4.
ThreeCakesSlice ==
    [Type |-> ThreeCakes.Type, Items |-> ThreeCakes.Items,
     CurrentIndex |-> ThreeCakes.CurrentIndex, list |-> ThreeCakes.list,
     array |-> appendSlice(appendSlice(appendSlice(<<>>, 0, <<>>, 1).array,
                                       0, <<1>>, 2).array,
                           0, <<1, 2>>, 3).array,
     off |-> 0]

InitSlice ==
    /\ live = TRUE
    /\ ds = [MarkDirty(NewDatastore) EXCEPT
                !.Collections = [n \in CollNames |-> ThreeCakesSlice]]
    /\ docId = [d \in {"chocolate", "vanilla", "strawberry"} |->
                   CHOOSE k \in ListKeys : ThreeCakes.Items[k] = d]
    /\ fs = [f \in Files |-> NoFile]
    /\ ret = [op |-> "Upsert", err |-> ErrNil, id |-> ThreeCakes.CurrentIndex]
    /\ hist = [c \in CollNames |->
                  [issued |-> ListKeys, zeroUpserts |-> ThreeCakes.CurrentIndex]]
    /\ got = NoDatastore
    /\ pc = [t \in Threads |-> "idle"]
    /\ flock = NoThread
    /\ mutex = [n \in CollNames |-> FreeMutex]
    /\ loc = [t \in Threads |-> NoSlice]

NextSlice ==
    \/ \E name \in CollNames : SliceList(name)
    \/ \E name \in CollNames, d \in {"chocolate", "vanilla", "strawberry"} :
          CanPass(d, 0, {}) /\ SliceUpsert(name, d, IdOf(docId, d, 0))
    \/ \E name \in CollNames, key \in ListKeys : SliceDeleteKey(name, key)

SpecSlice == InitSlice /\ [][NextSlice]_vars

\* The slice c.list shows the list of the collection.
SliceIsList ==
    \A n \in DOMAIN ds.Collections :
        LET c == ds.Collections[n]
        IN  SubSeq(c.array, c.off + 1, c.off + Len(c.list)) = c.list

\* ------------------------------------------------- Flush after a failure
\* A program that has a Datastore at PathGood with unflushed changes, and
\* that calls Flush again after a Flush has failed.  ret tells of each
\* Flush whether path+".tmp" was there when it was called (stale) and
\* whether every file operation of the call succeeded (clean).
FlushAgain ==
    /\ live
    /\ \E fail \in FailPointsOf(ds) :
          LET r == FlushOp(ds, fs, docId, hist, fail)
          IN  /\ fs' = Leftover(r.fs, ds.path)
              /\ ret' = [op |-> "Flush", err |-> r.err, id |-> 0,
                         stale |-> fs[Temp(ds.path)].state # "absent",
                         clean |-> fail = "none"]
    /\ got' = NoDatastore
    /\ UNCHANGED <<live, ds, docId, hist, conc>>

NextRetry ==
    \/ FlushAgain
    \/ \E name \in CollNames, d \in FileDocs :
          CanPass(d, 0, {}) /\ Upsert(name, d, IdOf(docId, d, 0))
    \/ \E name \in CollNames, key \in Keys : DeleteKey(name, key)

SpecRetry == InitConc /\ [][NextRetry]_vars

\* ------------------------------------------------- binarySearchList
\* The loop of binarySearchList, one turn per step, on every strictly
\* ascending list of the values below and every key around them.  ret is
\* the frame of the call: list, key (id), low, high, and idx once it has
\* returned (done).
SearchValues == 1..(MaxIndex + 3)

SearchKeys == 0..(MaxIndex + 4)

\* The elements of S in ascending order.
RECURSIVE AscendingSeq(_)
AscendingSeq(S) ==
    IF S = {} THEN <<>>
    ELSE LET m == CHOOSE x \in S : \A y \in S : y <= x
         IN  Append(AscendingSeq(S \ {m}), m)

\* mid = low + ((high - low) / 2)
Mid(low, high) == low + ((high - low) \div 2)

\* (variant) the search goes on with mid as the upper end
HighBelowKeeps(mid) == mid

\* high = mid - 1
HighBelow(mid) == mid - 1

\* low = mid + 1
LowAbove(mid) == mid + 1

\* low, mid, high := 0, 0, len(*list)-1
InitSearch ==
    /\ live = FALSE
    /\ ds = NewDatastore
    /\ docId = <<>>
    /\ fs = [f \in Files |-> NoFile]
    /\ \E S \in SUBSET SearchValues, key \in SearchKeys :
          ret = [op |-> "binarySearchList", err |-> ErrNil, id |-> key,
                 list |-> AscendingSeq(S), low |-> 0,
                 high |-> Cardinality(S) - 1, done |-> FALSE, idx |-> 0]
    /\ hist = NoHist
    /\ got = NoDatastore
    /\ ConcInit

\* One turn of the loop: for low <= high { ... }
SearchTurn ==
    /\ ~ret.done
    /\ ret.low <= ret.high
    /\ LET mid == Mid(ret.low, ret.high)
       IN  ret' = IF ret.id < ret.list[mid + 1]
                  THEN [ret EXCEPT !.high = HighBelow(mid)]
                  ELSE IF ret.id > ret.list[mid + 1]
                  THEN [ret EXCEPT !.low = LowAbove(mid)]
                  ELSE [ret EXCEPT !.done = TRUE, !.idx = mid]
    /\ UNCHANGED <<live, ds, docId, fs, hist, got, conc>>

\* return -1
SearchEnd ==
    /\ ~ret.done
    /\ ret.low > ret.high
    /\ ret' = [ret EXCEPT !.done = TRUE, !.idx = -1]
    /\ UNCHANGED <<live, ds, docId, fs, hist, got, conc>>

NextSearch == SearchTurn \/ SearchEnd

\* The call goes on running until it returns.
SpecSearch == InitSearch /\ [][NextSearch]_vars /\ WF_vars(NextSearch)

\* The loop returns what the recursive form of the search gives.
SearchIsBsearch == ret.done => ret.idx = binarySearchList(ret.list, ret.id)

\* ================================================================ claims
\* The keys of a collection in ascending order.
RECURSIVE Ascending(_)
Ascending(S) ==
    IF S = {} THEN <<>>
    ELSE LET m == CHOOSE x \in S : \A y \in S : y <= x
         IN  Append(Ascending(S \ {m}), m)

Cols == ds.Collections

\* The step is a successful Upsert of a document whose Identifier was 0.
AssignedIn(n) ==
    /\ ret'.op = "Upsert" /\ ret'.err = ErrNil
    /\ hist'[n].zeroUpserts = hist[n].zeroUpserts + 1

\* C1: after any sequence of Upsert, DeleteKey and Delete calls, List() is
\* exactly the ascending sequence of the keys of Items.
C1_IndexConsistency ==
    \A n \in DOMAIN Cols : List(Cols[n]) = Ascending(DOMAIN Cols[n].Items)

\* C2: CurrentIndex equals the number of successful Upsert calls that got a
\* document with Identifier 0, and the k-th such call sets the Identifier to k.
C2_KeyMonotonicity ==
    /\ [](\A n \in DOMAIN Cols : Cols[n].CurrentIndex = hist[n].zeroUpserts)
    /\ [][\A n \in CollNames :
             AssignedIn(n) => ret'.id = hist'[n].zeroUpserts]_vars

C2_Witness ==
    /\ ret.op = "Upsert" /\ ret.err = ErrNil /\ ret.id = 2
    /\ hist["cake"].zeroUpserts = 2
    /\ Cols["cake"].CurrentIndex = 2
    /\ DOMAIN Cols["cake"].Items = {2}

\* C3: Upsert of a document with Identifier 0 assigns a key that is not a
\* key of Items at the time of the call.
C3_NoOverwrite ==
    [][\A n \in DOMAIN Cols :
          AssignedIn(n) => ret'.id \notin DOMAIN Cols[n].Items]_vars

\* The step replaces the Datastore of the program by another one.
Replaced == ret'.op \in {"New", "Create", "Open", "OpenOrCreate"}

\* The file of the Datastore holds the state the Datastore is in.
Flushed ==
    /\ ValidName(ds.path)
    /\ fs[ds.path].state = "complete"
    /\ fs[ds.path].body = Encode(ds, docId)

\* C4: CurrentIndex never decreases, also over a Flush followed by Open, and
\* a key that Upsert assigned is not assigned again.
C4_KeysNotReused ==
    /\ [][(~Replaced \/ (Flushed /\ ds'.path = ds.path)) =>
             \A n \in DOMAIN Cols \cap DOMAIN ds'.Collections :
                 ds'.Collections[n].CurrentIndex >= Cols[n].CurrentIndex]_vars
    /\ [][\A n \in CollNames :
             AssignedIn(n) => ret'.id \notin hist[n].issued]_vars

C4_Witness ==
    /\ ret.op = "Open" /\ ret.err = ErrNil
    /\ "cake" \in DOMAIN Cols
    /\ Cols["cake"].CurrentIndex = 1
    /\ Cols["cake"].Items = <<>>
    /\ hist["cake"].issued = {1}

\* C5: Upsert of a document whose kind differs from the non-empty Type
\* returns ErrInvalidType and leaves Type, Items, CurrentIndex, List() and
\* the Identifier of the document unchanged.
C5_TypeGuard ==
    [][\A n \in DOMAIN Cols, d \in Docs, id \in 0..MaxIndex :
          (Upsert(n, d, id) /\ Cols[n].Type \notin {"", CName(d)}) =>
              /\ ret'.err = ErrInvalidType
              /\ ret'.id = id
              /\ ds'.Collections = Cols
              /\ docId' = docId]_vars

C5_Witness ==
    /\ ret.op = "Upsert" /\ ret.err = ErrInvalidType
    /\ \E n \in DOMAIN Cols : Cols[n].Items # <<>> /\ Cols[n].Type = NameKind

C7_FlushClearsDirty ==
    ret.op = "Flush" /\ ret.err = ErrNil => ~ds.dirty

\* C8: Create returns success only after a snapshot file has been written
\* at path.
C8_CreateWritesFile ==
    ret.op = "Create" /\ ret.err = ErrNil => fs[ds.path].state = "complete"

\* C9: Flush on an in-memory Datastore returns an error on every call and
\* leaves no file behind.
C9_InMemoryFlushFails ==
    ret.op = "Flush" /\ ds.path = NoPath =>
        ret.err # ErrNil /\ \A f \in Files : fs[f].state = "absent"

\* C10: when Flush returns an error the file at the final path is as it
\* was before the call and the dirty flag is still true.
C10_FailedFlushKeepsFile ==
    /\ [](ret.op = "Flush" /\ ret.err # ErrNil => ds.dirty)
    /\ [][ret'.op = "Flush" /\ ret'.err # ErrNil =>
             fs'[ds.path] = fs[ds.path]]_vars

C10_Witness ==
    /\ ret.op = "Flush" /\ ret.err # ErrNil
    /\ fs[ds.path].state = "complete"
    /\ fs[Temp(ds.path)].state = "complete"

\* C12: a successful Flush followed by Open with the same path and signature
\* yields the same collection names and, for each collection, the same Type,
\* the same documents under the same keys with the same Identifiers, and the
\* same List() sequence as before the Flush.
C12_RoundTrip ==
    [][\A p \in Paths, s \in Sigs :
          (/\ ret.op = "Flush" /\ ret.err = ErrNil /\ ds.dirty
           /\ ds.path = p /\ ds.signature = Signature(s)
           /\ Open(p, s) /\ ret'.err = ErrNil) =>
              /\ DOMAIN ds'.Collections = DOMAIN Cols
              /\ \A n \in DOMAIN Cols :
                    /\ ds'.Collections[n].Type = Cols[n].Type
                    /\ ds'.Collections[n].Items = Cols[n].Items
                    /\ List(ds'.Collections[n]) = List(Cols[n])
              /\ docId' = docId]_vars

\* As C12 with List() left out: what the snapshot itself carries.
RoundTripOfItems ==
    [][\A p \in Paths, s \in Sigs :
          (/\ ret.op = "Flush" /\ ret.err = ErrNil /\ ds.dirty
           /\ ds.path = p /\ ds.signature = Signature(s)
           /\ Open(p, s) /\ ret'.err = ErrNil) =>
              /\ DOMAIN ds'.Collections = DOMAIN Cols
              /\ \A n \in DOMAIN Cols :
                    /\ ds'.Collections[n].Type = Cols[n].Type
                    /\ ds'.Collections[n].Items = Cols[n].Items
                    /\ ds'.Collections[n].CurrentIndex = Cols[n].CurrentIndex
              /\ docId' = docId]_vars

\* The file at p has a gzip header, so Open can read its signature.
HasHeader(p) == fs[p].state \in {"partial", "complete", "foreign"}

C14_SignatureReported ==
    [][\A p \in Paths, s \in AllSigs :
          (Open(p, s) /\ ret'.err = ErrInvalidSignature) =>
              ~got'.nil /\ got'.ds.signature = fs[p].sig]_vars

\* C15: Open on a file with a matching signature whose body cannot be
\* decoded returns an error and a nil Datastore.
C15_DecodeFailureReturnsNil ==
    ret.op = "Open" /\ ret.err = ErrDecode => got.nil

\* C16: OpenOrCreate returns what Open returns when the file exists, with
\* the files unchanged, and what Create returns when it does not.
C16_OpenOrCreate ==
    [][\A p \in Paths, s \in AllSigs :
          OpenOrCreate(p, s) =>
              IF fs[p].state = "absent"
              THEN /\ ret'.err = ErrNil
                   /\ got' = Returned(Created(p, s))
              ELSE /\ fs' = fs
                   /\ \/ /\ ret'.err = ErrNil
                         /\ fs[p].state = "complete" /\ fs[p].sig = Signature(s)
                         /\ DOMAIN ds'.Collections = DOMAIN fs[p].body
                         /\ ds'.path = p
                      \/ /\ ret'.err = ErrInvalidSignature
                         /\ HasHeader(p) /\ fs[p].sig # Signature(s)
                         /\ ds' = ds
                      \/ /\ ret'.err = ErrGzip /\ fs[p].state = "empty"
                         /\ ds' = ds
                      \/ /\ ret'.err = ErrDecode
                         /\ fs[p].state \in {"partial", "foreign"}
                         /\ ds' = ds
                      \/ /\ ret'.err = ErrIO
                         /\ ds' = ds]_vars

C16_Witness ==
    /\ ret.op = "OpenOrCreate" /\ ret.err = ErrInvalidSignature
    /\ fs[PathGood].state = "complete" /\ fs[PathGood].body = OnDiskBody
    /\ got.nil /\ ~live

\* Every goroutine has made all its calls and is in none.
Done == \A t \in Threads : pc[t] = "idle" /\ loc[t].calls = MaxCalls

\* The number of documents that the goroutines upsert together.
AllCalls == Cardinality(Threads) * MaxCalls

\* The collection holds AllCalls documents under the keys 1..AllCalls, each
\* with its key as Identifier, CurrentIndex is AllCalls and List() is
\* 1, 2, .., AllCalls.
AllUpserted ==
    LET c == Cols[TheColl]
    IN  /\ DOMAIN c.Items = 1..AllCalls
        /\ \A j, k \in DOMAIN c.Items : j # k => c.Items[j] # c.Items[k]
        /\ \A k \in DOMAIN c.Items : docId[c.Items[k]] = k
        /\ c.CurrentIndex = AllCalls
        /\ List(c) = [i \in 1..AllCalls |-> i]

\* C17: when the goroutines concurrently Upsert documents with Identifier 0
\* into one collection, every interleaving ends, without a crash, with
\* the collection holding exactly these documents under the keys 1..N*m.
C17_ConcurrentUpserts == NoCrash /\ (Done => AllUpserted)

\* The interleavings that do end leave the collection as C17 says.
UpsertsSerialized == Done => AllUpserted

\* C11: in every state, also while a Flush is at any of its steps, the file
\* at the path of the Datastore is absent or a complete snapshot, and a
\* goroutine that has opened it in Open has a complete snapshot to read.
C11_FinalFileWhole ==
    /\ fs[ds.path].state \in {"absent", "complete"}
    /\ \A t \in Threads : pc[t] = "o_read" => loc[t].file.state = "complete"

C11_Witness ==
    /\ fs[ds.path].state = "complete"
    /\ fs[Temp(ds.path)].state = "partial"
    /\ \E t, u \in Threads : pc[t] = "f_wclose" /\ pc[u] = "o_read"

\* Goroutine t holds the lock of a collection, for writing or for reading.
HoldsMutex(t) ==
    \E n \in CollNames :
        \/ mutex[n].writer = t /\ pc[t] \notin {"u_wait", "d_wait"}
        \/ mutex[n].readers[t] > 0

\* C18: no goroutine holds d.flush and the lock of a collection at the same
\* time, and whenever goroutines are inside Upsert, DeleteKey, Flush or Open
\* calls one of them can take its next step.
C18_LockOrder ==
    /\ \A t \in Threads : ~(flock = t /\ HoldsMutex(t))
    /\ (NoCrash /\ \E t \in Threads : pc[t] # "idle") =>
           \E t \in Threads :
               /\ pc[t] # "idle"
               /\ ENABLED (UpsertSteps(t) \/ DeleteSteps(t)
                             \/ FlushSteps(t) \/ OpenSteps(t))

C18_Witness ==
    \E t, u \in Threads :
        /\ flock = t /\ pc[t] = "f_encode"
        /\ mutex[TheColl].writer = u /\ pc[u] = "u_store"

InWrite(t) == pc[t] \in {"u_index", "u_store", "d_items", "d_list"}

\* Goroutine t is in FindKey, List, FindAll or FindOne and holds the read
\* lock under which it reads Items and the list.
InRead(t) == pc[t] \in {"k_read", "l_read", "a_list", "a_listed", "a_items"}

\* C20: while a goroutine is inside the locked part of Upsert or DeleteKey
\* no goroutine is reading in FindKey, FindAll, FindOne or List, and what a
\* reader finds is a list that holds exactly the keys of Items.
C20_ReadersExcluded ==
    \A r \in Threads :
        InRead(r) =>
            /\ \A w \in Threads : ~InWrite(w)
            /\ List(Cols[TheColl]) = Ascending(DOMAIN Cols[TheColl].Items)

\* A writer is half-way (the new key is in the list and not yet in Items)
\* and the other goroutine cannot start to read.
C20_Witness ==
    \E w, r \in Threads :
        /\ pc[w] = "u_store"
        /\ List(Cols[TheColl]) # Ascending(DOMAIN Cols[TheColl].Items)
        /\ pc[r] = "idle" /\ loc[r].calls < MaxCalls
        /\ ~ENABLED ReadSteps(r)

\* The stored documents of c that the finder accepts, by ascending key.
RECURSIVE Matching(_, _, _)
Matching(c, keys, finder) ==
    IF keys = {} THEN <<>>
    ELSE LET m == CHOOSE x \in keys : \A y \in keys : y <= x
         IN  IF c.Items[m] \in finder
             THEN Append(Matching(c, keys \ {m}, finder), c.Items[m])
             ELSE Matching(c, keys \ {m}, finder)

\* The call that has just returned read the collection "cake".
Asked(op) == live /\ ret.op = op /\ "cake" \in DOMAIN Cols

\* C21: FindAll(finder) returns the stored documents that the finder
\* accepts, each once and by ascending key (the empty sequence when there is
\* none), and the call changes nothing in the collection.
C21_FindAll ==
    /\ [](Asked("FindAll") =>
             ret.found = Matching(Cols["cake"], DOMAIN Cols["cake"].Items,
                                  ret.finder))
    /\ [][ret'.op = "FindAll" => ds' = ds /\ docId' = docId]_vars

\* FindAll returns the documents that the finder accepts among those whose
\* key is in List(), in the order of List(), and changes nothing.
FindAllOfList ==
    /\ [](Asked("FindAll") =>
             /\ \A i \in 1..Len(ret.found) : ret.found[i] \in ret.finder
             /\ \A k \in 1..Len(List(Cols["cake"])) :
                    Cols["cake"].Items[List(Cols["cake"])[k]] \in ret.finder =>
                        \E i \in 1..Len(ret.found) :
                            ret.found[i] = Cols["cake"].Items[List(Cols["cake"])[k]])
    /\ [][ret'.op = "FindAll" => ds' = ds /\ docId' = docId]_vars

\* The first element of a sequence of documents, nil when there is none.
First(docs) == IF docs = <<>> THEN NoDoc ELSE docs[1]

\* C22: FindOne(finder) returns the stored document with the smallest key
\* that the finder accepts, nil when no stored document is accepted, and the
\* first element of FindAll(finder) whenever that is not empty.
C22_FindOne ==
    Asked("FindOne") =>
        LET c   == Cols["cake"]
            all == ScanAll(c, List(c), ret.finder)
        IN  /\ ret.found = First(Matching(c, DOMAIN c.Items, ret.finder))
            /\ all # <<>> => ret.found = all[1]

\* FindOne returns the first element of what FindAll returns for the same
\* finder, and nil when FindAll returns the empty sequence.
FindOneOfFindAll ==
    Asked("FindOne") =>
        ret.found = First(ScanAll(Cols["cake"], List(Cols["cake"]), ret.finder))

\* What is stored under key k of collection n before and after the step; a
\* collection that is not registered stores nothing.
Stored(n, k) == IF n \in DOMAIN Cols THEN ItemAt(Cols[n], k) ELSE NoDoc
StoredNext(n, k) ==
    IF n \in DOMAIN ds'.Collections THEN ItemAt(ds'.Collections[n], k) ELSE NoDoc

C24_DeleteKeepsID ==
    [][\A n \in DOMAIN Cols, d \in Docs, id \in Keys :
          Delete(n, d, id) =>
              /\ ds'.Collections[n] = DeleteKeyLocked(Cols[n], id)
              /\ ret'.id = id]_vars

\* Key k occurs in the sequence list.
InList(list, k) == \E i \in 1..Len(list) : list[i] = k

TypeOf(cols, n) == IF n \in DOMAIN cols THEN cols[n].Type ELSE ""

\* What SetType with a document of kind does to a collection of Type old.
Bound(old, kind, new, err) ==
    /\ new = IF old = "" THEN kind ELSE old
    /\ err = IF old \in {"", kind} THEN ErrNil ELSE ErrInvalidType

\* C27: SetType, called by Init and by Upsert, binds an empty Type to the
\* kind of the document, returns ErrInvalidType and leaves Type as it is when
\* Type is another kind, and does nothing when Type is that kind; a Type
\* that is not empty is the same after every Init, Upsert, DeleteKey and
\* Delete call.
C27_TypeBinding ==
    /\ [][\A n \in CollNames, d \in Docs :
             DatastoreInit(n, d) =>
                 Bound(TypeOf(Cols, n), CName(d),
                       TypeOf(ds'.Collections, n), ret'.err)]_vars
    /\ [][\A n \in DOMAIN Cols, d \in Docs, id \in 0..MaxIndex :
             Upsert(n, d, id) =>
                 Bound(TypeOf(Cols, n), CName(d),
                       TypeOf(ds'.Collections, n), ret'.err)]_vars
    /\ [][ret'.op \in {"In", "Init", "Upsert", "DeleteKey", "Delete",
                       "FindAll", "FindOne", "FindKey"} =>
             \A n \in DOMAIN Cols :
                 Cols[n].Type # "" => TypeOf(ds'.Collections, n) = Cols[n].Type]_vars

\* TestInit: Init with a document of another kind on a typed collection.
C27_Witness ==
    /\ Asked("Init") /\ ret.err = ErrInvalidType
    /\ Cols["cake"].Type = NumberKind
    /\ Cols["cake"].Items = (1 :> "number")

\* C28: In(name) returns the collection registered under name and otherwise
\* registers a new one with empty Type, no items and CurrentIndex 0; a
\* repeated In(name) yields the same collection, so that the documents
\* upserted through an earlier result are found through the later one.
C28_In ==
    /\ [][\A n \in CollNames :
             In(n) =>
                 IF n \in DOMAIN Cols
                 THEN ds' = ds /\ docId' = docId
                 ELSE /\ DOMAIN ds'.Collections = DOMAIN Cols \cup {n}
                      /\ ds'.Collections[n].Type = ""
                      /\ ds'.Collections[n].Items = <<>>
                      /\ ds'.Collections[n].CurrentIndex = 0
                      /\ List(ds'.Collections[n]) = <<>>
                      /\ \A m \in DOMAIN Cols : ds'.Collections[m] = Cols[m]]_vars
    /\ [](Asked("In") =>
             \A d \in DOMAIN docId : Stored("cake", docId[d]) = d)

\* In has been called on a collection that holds a document.
C28_Witness ==
    /\ Asked("In")
    /\ Cols["cake"].Items = (1 :> "chocolate")
    /\ docId["chocolate"] = 1

\* C29: Upsert of a document whose non-zero Identifier is a key of Items
\* replaces what is stored under it and leaves the Identifier, CurrentIndex
\* and List() as they were; the same Upsert made once more leaves the
\* collection as the first one left it.
C29_UpsertReplaces ==
    [][\A n \in DOMAIN Cols, d \in Docs, id \in 0..MaxIndex :
          Upsert(n, d, id) /\ ret'.err = ErrNil =>
              LET c     == Cols[n]
                  c2    == ds'.Collections[n]
                  again == UpsertLocked(SetType(c2, CName(d)).c, d, ret'.id)
              IN  /\ id \in DOMAIN c.Items =>
                         /\ ret'.id = id
                         /\ DOMAIN c2.Items = DOMAIN c.Items
                         /\ \A k \in DOMAIN c.Items :
                                c2.Items[k] = IF k = id THEN d ELSE c.Items[k]
                         /\ c2.CurrentIndex = c.CurrentIndex
                         /\ List(c2) = List(c)
                  /\ again.c = c2
                  /\ again.id = ret'.id]_vars

\* vanilla and chocolate have been upserted and vanilla, which carries key
\* 1, has been upserted again.
C29_Witness ==
    /\ Asked("Upsert") /\ ret.err = ErrNil /\ ret.id = 1
    /\ Cols["cake"].Items = (1 :> "vanilla" @@ 2 :> "chocolate")
    /\ List(Cols["cake"]) = <<1, 2>>
    /\ Cols["cake"].CurrentIndex = 2

\* The sequence is strictly ascending.
StrictlyAscending(list) ==
    \A i, j \in 1..Len(list) : i < j => list[i] < list[j]

\* C30: after DeleteKey(k), an Upsert of a document that still carries
\* Identifier k, made while a key larger than k is stored, leaves k in List()
\* exactly once and at its sorted position: List() is strictly ascending.
C30_ReinsertSorted ==
    [][\A n \in DOMAIN Cols, d \in Docs, id \in Keys :
          (/\ ret.op = "DeleteKey"
           /\ id \in hist[n].issued
           /\ id \notin DOMAIN Cols[n].Items
           /\ \E k \in DOMAIN Cols[n].Items : k > id
           /\ Upsert(n, d, id)
           /\ ret'.err = ErrNil) =>
              LET list == List(ds'.Collections[n])
              IN  /\ Cardinality({i \in 1..Len(list) : list[i] = id}) = 1
                  /\ StrictlyAscending(list)]_vars

\* List() is strictly ascending and holds keys of Items only.
ListOfStoredKeys ==
    \A n \in DOMAIN Cols :
        /\ StrictlyAscending(List(Cols[n]))
        /\ \A i \in 1..Len(List(Cols[n])) : List(Cols[n])[i] \in DOMAIN Cols[n].Items

\* C31: the signature goes through the file unchanged.  The Datastore that
\* Create(path, s) returns has the signature "datastore:" followed by s; the
\* file that Flush writes has the signature of the Datastore in its header;
\* ReadSignature returns the header of every file that has one, also when
\* the body cannot be decoded; and the Datastore that Open(path, s) returns
\* has the signature "datastore:" followed by s, which is the header.
C31_SignatureRoundTrip ==
    /\ [][\A p \in Paths, s \in AllSigs :
             (Create(p, s) \/ OpenOrCreate(p, s)) /\ ret'.err = ErrNil =>
                 /\ ~got'.nil
                 /\ got'.ds.signature = "datastore:" \o s]_vars
    /\ [][\A p \in Paths, s \in AllSigs :
             Open(p, s) /\ ret'.err = ErrNil =>
                 /\ ~got'.nil
                 /\ got'.ds.signature = "datastore:" \o s
                 /\ fs[p].sig = "datastore:" \o s]_vars
    /\ [][ret'.op = "Flush" /\ ret'.err = ErrNil /\ ds.dirty =>
             fs'[ds.path].sig = ds.signature]_vars
    /\ [](ret.op = "ReadSignature" =>
             \A p \in Paths :
                 HasHeader(p) /\ ret.err = ErrNil => ret.signature = fs[p].sig)
    /\ [][\A p \in Paths :
             ReadSignature(p) /\ HasHeader(p) =>
                 ret'.err \in {ErrNil, ErrIO}]_vars

\* ReadSignature has returned the signature of a file that Open cannot decode.
C31_Witness ==
    /\ ret.op = "ReadSignature" /\ ret.err = ErrNil
    /\ ret.signature = "datastore:candy"
    /\ fs[PathGood].state = "foreign"

\* The documents that the Collection behind pointer p stores.
StoredIn(p) == {loc[p].obj.Items[k] : k \in DOMAIN loc[p].obj.Items}

\* C32: when goroutines call In for a name that is not registered and each
\* upserts into the collection it got, no interleaving stops the program, all
\* of them got the one collection that is registered under the name, and
\* that collection stores every document they upserted.
C32_ConcurrentIn ==
    /\ NoCrash
    /\ Done =>
          /\ \A t \in Threads : loc[t].c = ds.Collections[TheColl]
          /\ StoredIn(ds.Collections[TheColl]) =
                 {NewDoc(t, i) : t \in Threads, i \in 1..MaxCalls}

\* C33: a zero-value Datastore supports In and the collection API as one made
\* by New does: In(name) returns a usable collection, registered under name.
C33_ZeroValueIn ==
    (IsNilMap(ds) /\ ret.op = "In") =>
        /\ ret.err = ErrNil
        /\ CollNames \subseteq DOMAIN ds.Collections


\* A FindAll or FindOne of goroutine t holds the read lock and waits in
\* List() for the read lock again, behind a writer that waits in Lock() for
\* the readers to leave.
WaitsBehindWriter(t) ==
    /\ pc[t] = "a_list"
    /\ mutex[TheColl].readers[t] > 0
    /\ mutex[TheColl].writer # NoThread
    /\ pc[mutex[TheColl].writer] \in {"u_wait", "d_wait"}

\* C34: every FindAll and FindOne call returns: the read lock that List()
\* takes inside FindAll/FindOne is never waited for behind a writer that in
\* turn waits for the caller's own read lock.
C34_FindReturns == \A t \in Threads : ~WaitsBehindWriter(t)

\* Such a wait never ends: no step of any goroutine takes t out of it.
WaitsForever == [][\A t \in Threads : WaitsBehindWriter(t) => WaitsBehindWriter(t)']_vars


\* The Upsert that goroutine w has in progress is entirely in the encoded
\* collection b (item stored under its key), or entirely absent from it (the
\* counter not yet advanced to its key, the document not stored).
UpsertIn(b, w) ==
    /\ loc[w].key \in DOMAIN b.Items
    /\ b.Items[loc[w].key].doc = loc[w].doc

UpsertAbsent(b, w) ==
    /\ b.CurrentIndex < loc[w].key
    /\ \A k \in DOMAIN b.Items : b.Items[k].doc # loc[w].doc

\* C35: the collection that encoder.Encode writes into the snapshot holds an
\* Upsert that runs at the same time entirely or not at all: never the
\* advanced CurrentIndex without the item.
C35_SnapshotWhole ==
    [][\A t \in Threads :
          (pc[t] = "f_encode" /\ pc'[t] = AfterEncode) =>
              \A w \in Threads :
                  pc[w] = "u_store" =>
                      LET b == fs'[Temp(ds.path)].body[TheColl]
                      IN  UpsertIn(b, w) \/ UpsertAbsent(b, w)]_vars


\* The goroutine that built document d, and the kinds of the stored documents.
MakerOf(d) == CHOOSE t \in Threads : \E i \in 1..MaxCalls : d = NewDoc(t, i)

KindsIn(c) == {KindOf(MakerOf(c.Items[k])) : k \in DOMAIN c.Items}

\* C36: goroutines upsert documents of two kinds into a collection with no
\* Type: Items never holds documents of two kinds, and when all calls have
\* returned the calls of one kind have succeeded and the others have not.
C36_OneKind ==
    /\ Cardinality(KindsIn(ds.Collections[TheColl])) <= 1
    /\ (NoCrash /\ \A t \in Threads : pc[t] = "idle" /\ loc[t].calls = MaxCalls) =>
           Cardinality(KindsIn(ds.Collections[TheColl])) = 1


\* C37: the key sequence that List() returned is a snapshot: whatever
\* Upsert and DeleteKey do afterwards, it shows what it showed on return.
C37_ListSnapshot ==
    loc[Caller].held =>
        Shows(loc[Caller], ds.Collections[TheColl]) = loc[Caller].taken


\* C38: a Flush that finds the temporary file of a failed Flush, and whose
\* file operations all succeed, returns nil and leaves at path a complete
\* snapshot of the Datastore as it then is; the temporary file is gone.
C38_FlushAfterLeftover ==
    (ret.op = "Flush" /\ ret.stale /\ ret.clean) =>
        /\ ret.err = ErrNil
        /\ fs[ds.path].state = "complete"
        /\ fs[ds.path].sig = ds.signature
        /\ fs[ds.path].body = Encode(ds, docId)
        /\ fs[Temp(ds.path)].state = "absent"

C38_Witness ==
    /\ ret.op = "Flush" /\ ret.stale /\ ret.clean /\ ret.err = ErrNil
    /\ fs[ds.path].body = Encode(ds, docId)
    /\ ds.Collections[TheColl].CurrentIndex = MaxIndex


\* C39: on every strictly ascending list, the empty one too, and for every
\* key, binarySearchList returns, and it returns what scanList returns: the
\* position of the key, or -1 when the key is not in the list.
C39_SearchIsScan ==
    /\ <>ret.done
    /\ [](ret.done =>
            /\ ret.idx = scanList(ret.list, ret.id)
            /\ IF \E i \in 1..Len(ret.list) : ret.list[i] = ret.id
               THEN ret.list[ret.idx + 1] = ret.id
               ELSE ret.idx = -1)

C39_Witness ==
    /\ ret.done
    /\ Len(ret.list) = Cardinality(SearchValues)
    /\ ret.id = ret.list[Len(ret.list)]
    /\ ret.idx = Len(ret.list) - 1

====
